---- MODULE Spec2Model ----
(***************************************************************************)
(* Model of broadlink/climate.py: the command/response codec of the Hysen  *)
(* heating controller (class hysen) and of the Tornado air conditioner     *)
(* (class tornado).                                                        *)
(*                                                                         *)
(* The codec is stateless: every API call is one synchronous transaction.  *)
(* The state of the model is the classes the module body has defined, the  *)
(* call in progress and what it produced:                                  *)
(*   annotations  whether the interpreter evaluates the annotations of a   *)
(*           def statement when it executes it ("eager") or not ("lazy")   *)
(*   classes the classes of climate.py that exist                          *)
(*   pc      "start" before the module body has run, "idle" between calls, *)
(*           "done" when a call has returned/raised                        *)
(*   op      the method called                                             *)
(*   arg     the caller's arguments and the device's responses             *)
(*   sent    the frames handed to device.send_packet during the call       *)
(*   steps   the ordered trace of the processing steps of the call         *)
(*   result  [kind, value]: kind "ok" (value returned) or the exception    *)
(*   diag    the lines written to standard output during the call          *)
(*                                                                         *)
(* Bytes are integers 0..255, byte strings are sequences (Python index i   *)
(* is TLA+ index i+1).  Temperatures are integers in quarter degrees so    *)
(* that values that are not a multiple of 0.5 can be written.              *)
(* A device response is a record [err, payload]: err is the 16-bit value   *)
(* at response[0x22:0x24], payload is what device.decrypt returns for      *)
(* response[0x38:] (encryption belongs to the transport, broadlink/device).*)
(***************************************************************************)
EXTENDS Integers, Sequences, FiniteSets, TLC

VARIABLES annotations, classes, pc, op, arg, sent, steps, result, diag

vars == <<annotations, classes, pc, op, arg, sent, steps, result, diag>>

(***************************************************************************)
(* Bounds of the model.                                                    *)
(***************************************************************************)
MaxPayloadLen == 2
MaxBodyLen == 4
MaxWeekday == 7
MaxWeekend == 3
MaxPacketLen == 3

(***************************************************************************)
(* Integer helpers for Python's bit operators.                             *)
(***************************************************************************)
RECURSIVE Pow2(_)
Pow2(n) == IF n = 0 THEN 1 ELSE 2 * Pow2(n - 1)

Min(a, b) == IF a < b THEN a ELSE b

\* a >> n
Shr(a, n) == a \div Pow2(n)

\* a << n
Shl(a, n) == a * Pow2(n)

\* bit k of a
Bit(a, k) == (a \div Pow2(k)) % 2

RECURSIVE BitAndN(_, _, _)
BitAndN(a, b, n) ==
    IF n = 0 THEN 0
    ELSE ((a % 2) * (b % 2)) + 2 * BitAndN(a \div 2, b \div 2, n - 1)

\* a & b for a, b in 0..65535
BitAnd(a, b) == BitAndN(a, b, 16)

RECURSIVE BitXorN(_, _, _)
BitXorN(a, b, n) ==
    IF n = 0 THEN 0
    ELSE (((a % 2) + (b % 2)) % 2) + 2 * BitXorN(a \div 2, b \div 2, n - 1)

\* a ^ b for a, b in 0..65535
BitXor(a, b) == BitXorN(a, b, 16)

\* a | b for a, b in 0..65535
BitOr(a, b) == a + b - BitAnd(a, b)

\* Python slice s[lo:hi] with 0 <= lo, 0 <= hi
Slice(s, lo, hi) == SubSeq(s, lo + 1, Min(hi, Len(s)))

\* Python s[i]
At(s, i) == s[i + 1]

\* s with s[i] = v
SetAt(s, i, v) == [s EXCEPT ![i + 1] = v]

Zeros(n) == [i \in 1..n |-> 0]

(***************************************************************************)
(* Outcome of a call: what was sent, the trace, the result, the output.    *)
(***************************************************************************)
Outcome(s, t, k, v, d) ==
    [sent |-> s, steps |-> t, result |-> [kind |-> k, value |-> v], diag |-> d]

(***************************************************************************)
(* broadlink.helpers.calculate_crc16 and broadlink.exceptions.check_error  *)
(* (imported at lines 4-5, defined outside climate.py).                    *)
(***************************************************************************)
RECURSIVE Crc16Bits(_, _)
Crc16Bits(crc, n) ==
    IF n = 0 THEN crc
    ELSE Crc16Bits(IF crc % 2 = 1 THEN BitXor(crc \div 2, 40961) ELSE crc \div 2,
                   n - 1)

\* The CRC register after the bytes data[lo..hi].  The range is split in
\* halves and the register value of the first half is bound before the second
\* half is entered, which keeps the evaluation shallow on long inputs.
RECURSIVE Crc16Range(_, _, _, _)
Crc16Range(crc, data, lo, hi) ==
    IF lo > hi THEN crc
    ELSE IF lo = hi THEN Crc16Bits(BitXor(crc, data[lo]), 8)
    ELSE LET mid == (lo + hi) \div 2
         IN  CHOOSE r \in {Crc16Range(left, data, mid + 1, hi) :
                             left \in {Crc16Range(crc, data, lo, mid)}} : TRUE

\* CRC-16 (reflected polynomial 0xA001, initial value 0xFFFF)
calculate_crc16(data) == Crc16Range(65535, data, 1, Len(data))

\* check_error raises when the error code is not zero
check_error(err) == err # 0

(***************************************************************************)
(* hysen.send_request                                                      *)
(***************************************************************************)
\* lines 24-32: the request frame; bytearray() rejects a first byte > 255
ByteLimit == 255

\* variant: the CRC appended high byte first
request_payload_crc_swapped(input_payload) ==
    LET crc == calculate_crc16(input_payload)
    IN  <<Len(input_payload) + 2, 0>> \o input_payload
            \o <<BitAnd(Shr(crc, 8), 255), BitAnd(crc, 255)>>

request_payload(input_payload) ==
    LET crc == calculate_crc16(input_payload)
    IN  <<Len(input_payload) + 2, 0>> \o input_payload
            \o <<BitAnd(crc, 255), BitAnd(Shr(crc, 8), 255)>>

\* variant: the response accepted when either CRC byte matches
hysen_parse_either_byte(response_payload, s, t) ==
    IF Len(response_payload) = 0
    THEN Outcome(s, t, "IndexError", <<>>, <<>>)
    ELSE
      LET response_payload_len == At(response_payload, 0)
          t1 == t \o <<"length_check">>
      IN  IF response_payload_len + 2 > Len(response_payload)
          THEN Outcome(s, t1, "ValueError_length", <<>>, <<>>)
          ELSE
            LET crc == calculate_crc16(Slice(response_payload, 2, response_payload_len))
                t2 == t1 \o <<"crc_check">>
            IN  IF \/ At(response_payload, response_payload_len) = BitAnd(crc, 255)
                   \/ At(response_payload, response_payload_len + 1)
                          = BitAnd(Shr(crc, 8), 255)
                THEN Outcome(s, t2, "ok",
                             Slice(response_payload, 2, response_payload_len), <<>>)
                ELSE Outcome(s, t2, "ValueError_crc", <<>>, <<>>)

\* lines 39-47: length check, CRC check, strip
hysen_parse(response_payload, s, t) ==
    IF Len(response_payload) = 0
    THEN Outcome(s, t, "IndexError", <<>>, <<>>)
    ELSE
      LET response_payload_len == At(response_payload, 0)
          t1 == t \o <<"length_check">>
      IN  IF response_payload_len + 2 > Len(response_payload)
          THEN Outcome(s, t1, "ValueError_length", <<>>, <<>>)
          ELSE
            LET crc == calculate_crc16(Slice(response_payload, 2, response_payload_len))
                t2 == t1 \o <<"crc_check">>
            IN  IF /\ At(response_payload, response_payload_len) = BitAnd(crc, 255)
                   /\ At(response_payload, response_payload_len + 1)
                          = BitAnd(Shr(crc, 8), 255)
                THEN Outcome(s, t2, "ok",
                             Slice(response_payload, 2, response_payload_len), <<>>)
                ELSE Outcome(s, t2, "ValueError_crc", <<>>, <<>>)

send_request(input_payload, response) ==
    IF Len(input_payload) + 2 > ByteLimit
    THEN Outcome(<<>>, <<>>, "ValueError_byte", <<>>, <<>>)
    ELSE
      LET s == <<request_payload(input_payload)>>
      IN  IF check_error(response.err)
          THEN Outcome(s, <<"send_packet", "check_error">>, "DeviceError",
                       <<response.err>>, <<>>)
          ELSE hysen_parse(response.payload, s,
                           <<"send_packet", "check_error", "decrypt">>)

(***************************************************************************)
(* bytearray([...]) and int(x * 2)                                         *)
(***************************************************************************)
\* int(q / d) for integers q and d > 0: int() truncates toward zero
IntTrunc(q, d) == IF q >= 0 THEN q \div d ELSE -((-q) \div d)

\* int(x * 2) for x in quarter degrees
int_times2(x) == IntTrunc(x, 2)

\* a bytearray takes the integers of range(0, 256) only
IsByte(v) == v \in 0..ByteLimit

\* send_request(bytearray(values)): bytearray() raises ValueError when a value
\* is not a byte, before send_request is entered
send_bytearray(values, response) ==
    IF \E i \in 1..Len(values) : ~IsByte(values[i])
    THEN Outcome(<<>>, <<>>, "ValueError_byte", <<>>, <<>>)
    ELSE send_request(values, response)

\* the value of a method that returns None
ReturnsNone(out) ==
    IF out.result.kind = "ok" THEN [out EXCEPT !.result.value = <<>>] ELSE out

(***************************************************************************)
(* hysen.get_temp, hysen.get_external_temp                                 *)
(* A temperature payload[i] / 2.0 is 2 * payload[i] quarter degrees.       *)
(***************************************************************************)
TempRequest == <<1, 3, 0, 0, 0, 8>>
RoomTempIndex == 5
ExternalTempIndex == 18

\* send_request(TempRequest), then payload[index] / 2.0
read_temp(index, response) ==
    LET out == send_request(TempRequest, response)
    IN  IF out.result.kind # "ok" THEN out
        ELSE IF Len(out.result.value) <= index
        THEN Outcome(out.sent, out.steps, "IndexError", <<>>, <<>>)
        ELSE Outcome(out.sent, out.steps \o <<"decode">>, "ok",
                     2 * At(out.result.value, index), <<>>)

get_temp(response) == read_temp(RoomTempIndex, response)

get_external_temp(response) == read_temp(ExternalTempIndex, response)

(***************************************************************************)
(* hysen.set_mode, switch_to_auto, switch_to_manual, set_advanced,         *)
(* set_temp, set_power, set_time                                           *)
(***************************************************************************)
set_mode(auto_mode, loop_mode, sensor, response) ==
    LET mode_byte == Shl(loop_mode + 1, 4) + auto_mode
    IN  ReturnsNone(send_bytearray(<<1, 6, 0, 2, mode_byte, sensor>>, response))

switch_to_auto(response) == set_mode(1, 0, 0, response)

switch_to_manual(response) == set_mode(0, 0, 0, response)

\* lines 142-143: (int(adj * 2) >> 8 & 0xff), (int(adj * 2) & 0xff); >> and &
\* act on the two's complement of a negative int, which is floor division and
\* the non-negative remainder
adj_bytes(adj) ==
    LET v == int_times2(adj)
    IN  <<(v \div 256) % 256, v % 256>>

hysen_set_advanced(loop_mode, sensor, osv, dif, svh, svl, adj, fre, poweron, response) ==
    ReturnsNone(send_bytearray(<<1, 16, 0, 2, 0, 5, 10, loop_mode, sensor, osv, dif, svh, svl>>
                                   \o adj_bytes(adj) \o <<fre, poweron>>,
                               response))

hysen_set_temp(temp, response) ==
    ReturnsNone(send_bytearray(<<1, 6, 0, 1, 0, int_times2(temp)>>, response))

set_power(power, remote_lock, response) ==
    ReturnsNone(send_bytearray(<<1, 6, 0, 0, remote_lock, power>>, response))

set_time(hour, minute, second, day, response) ==
    ReturnsNone(send_bytearray(<<1, 16, 0, 8, 0, 2, 4, hour, minute, second, day>>, response))

(***************************************************************************)
(* hysen.set_schedule                                                      *)
(* A schedule entry is [start_hour, start_minute, temp], temp in quarter   *)
(* degrees.                                                                *)
(***************************************************************************)
RECURSIVE schedule_times(_, _)
schedule_times(entries, n) ==
    IF n = 0 THEN <<>>
    ELSE schedule_times(entries, n - 1)
            \o <<entries[n].start_hour, entries[n].start_minute>>

RECURSIVE schedule_temps(_, _)
schedule_temps(entries, n) ==
    IF n = 0 THEN <<>>
    ELSE schedule_temps(entries, n - 1) \o <<int_times2(entries[n].temp)>>

NumWeekday == 6
NumWeekend == 2

\* lines 182-201 for lists that have the entries the loops read
schedule_payload(weekday, weekend) ==
    <<1, 16, 0, 10, 0, 12, 24>>
        \o schedule_times(weekday, NumWeekday) \o schedule_times(weekend, NumWeekend)
        \o schedule_temps(weekday, NumWeekday) \o schedule_temps(weekend, NumWeekend)

\* What the appends of one loop read, in order: <<v>> is a value handed to
\* bytearray.append, <<>> is entries[i] on a list that has no entry i.
RECURSIVE time_reads(_, _)
time_reads(entries, n) ==
    IF n = 0 THEN <<>>
    ELSE time_reads(entries, n - 1)
            \o (IF n > Len(entries) THEN <<<<>>>>
                ELSE <<<<entries[n].start_hour>>, <<entries[n].start_minute>>>>)

RECURSIVE temp_reads(_, _)
temp_reads(entries, n) ==
    IF n = 0 THEN <<>>
    ELSE temp_reads(entries, n - 1)
            \o (IF n > Len(entries) THEN <<<<>>>>
                ELSE <<<<int_times2(entries[n].temp)>>>>)

\* lines 186-201: the four loops in the order they run
schedule_reads(weekday, weekend) ==
    time_reads(weekday, NumWeekday) \o time_reads(weekend, NumWeekend)
        \o temp_reads(weekday, NumWeekday) \o temp_reads(weekend, NumWeekend)

\* the exception of the first read or append that fails, "none" if none does
RECURSIVE first_failure(_, _)
first_failure(reads, i) ==
    IF i > Len(reads) THEN "none"
    ELSE IF reads[i] = <<>> THEN "IndexError"
    ELSE IF ~IsByte(reads[i][1]) THEN "ValueError_byte"
    ELSE first_failure(reads, i + 1)

\* variant: short lists padded with zero entries instead of failing
set_schedule_padded(weekday, weekend, response) ==
    LET zero == [start_hour |-> 0, start_minute |-> 0, temp |-> 0]
        pad(l, n) == [i \in 1..n |-> IF i <= Len(l) THEN l[i] ELSE zero]
        failure == first_failure(schedule_reads(pad(weekday, NumWeekday),
                                                pad(weekend, NumWeekend)), 1)
    IN  IF failure # "none"
        THEN Outcome(<<>>, <<>>, failure, <<>>, <<>>)
        ELSE ReturnsNone(send_request(schedule_payload(pad(weekday, NumWeekday),
                                                       pad(weekend, NumWeekend)),
                                      response))

set_schedule(weekday, weekend, response) ==
    LET failure == first_failure(schedule_reads(weekday, weekend), 1)
    IN  IF failure # "none"
        THEN Outcome(<<>>, <<>>, failure, <<>>, <<>>)
        ELSE ReturnsNone(send_request(schedule_payload(weekday, weekend), response))

(***************************************************************************)
(* hysen.get_full_status                                                   *)
(* Values the code divides by 2.0 are kept in quarter degrees: x / 2.0 is  *)
(* 2 * x quarters and the constant 32767 is 4 * 32767 quarters.            *)
(***************************************************************************)
FullStatusRequest == <<1, 3, 0, 0, 0, 22>>

\* the highest index read is payload[7 + 39]
FullStatusLen == 47

MirrorLimit == 32767

\* lines 79-81: room_temp_adj in quarter degrees
room_temp_adj(payload) ==
    LET adj == 2 * (Shl(At(payload, 13), 8) + At(payload, 14))
    IN  IF adj > 4 * MirrorLimit THEN 4 * MirrorLimit - adj ELSE adj

\* lines 92-94 and 98-100: schedule entry i
status_entry(payload, i) ==
    [start_hour |-> At(payload, 2 * i + 23),
     start_minute |-> At(payload, 2 * i + 24),
     temp |-> 2 * At(payload, i + 39)]

\* lines 65-103: the returned dictionary
decode_full_status(payload) ==
    [remote_lock |-> BitAnd(At(payload, 3), 1),
     power |-> BitAnd(At(payload, 4), 1),
     active |-> BitAnd(Shr(At(payload, 4), 4), 1),
     temp_manual |-> BitAnd(Shr(At(payload, 4), 6), 1),
     room_temp |-> 2 * BitAnd(At(payload, 5), 255),
     thermostat_temp |-> 2 * BitAnd(At(payload, 6), 255),
     auto_mode |-> BitAnd(At(payload, 7), 15),
     loop_mode |-> BitAnd(Shr(At(payload, 7), 4), 15),
     sensor |-> At(payload, 8),
     osv |-> At(payload, 9),
     dif |-> At(payload, 10),
     svh |-> At(payload, 11),
     svl |-> At(payload, 12),
     room_temp_adj |-> room_temp_adj(payload),
     fre |-> At(payload, 15),
     poweron |-> At(payload, 16),
     unknown |-> At(payload, 17),
     external_temp |-> 2 * BitAnd(At(payload, 18), 255),
     hour |-> At(payload, 19),
     min |-> At(payload, 20),
     sec |-> At(payload, 21),
     dayofweek |-> At(payload, 22),
     weekday |-> [i \in 1..NumWeekday |-> status_entry(payload, i - 1)],
     weekend |-> [i \in 1..NumWeekend |-> status_entry(payload, NumWeekday + i - 1)]]

get_full_status(response) ==
    LET out == send_request(FullStatusRequest, response)
    IN  IF out.result.kind # "ok" THEN out
        ELSE IF Len(out.result.value) < FullStatusLen
        THEN Outcome(out.sent, out.steps, "IndexError", <<>>, <<>>)
        ELSE Outcome(out.sent, out.steps \o <<"decode">>, "ok",
                     decode_full_status(out.result.value), <<>>)

(***************************************************************************)
(* tornado._calculate_checksum                                             *)
(***************************************************************************)
\* variant: every byte added as a low byte
RECURSIVE checksum_sum_bytes(_, _)
checksum_sum_bytes(packet, n) ==
    IF n = 0 THEN 0 ELSE checksum_sum_bytes(packet, n - 1) + packet[n]

\* sum([v if i % 2 == 0 else v << 8 for i, v in enumerate(packet)])
RECURSIVE checksum_sum(_, _)
checksum_sum(packet, n) ==
    IF n = 0 THEN 0
    ELSE checksum_sum(packet, n - 1)
            + (IF (n - 1) % 2 = 0 THEN packet[n] ELSE Shl(packet[n], 8))

DefaultTarget == 131095

\* result & 0xff and (result >> 8) & 0xff, also for a negative result
_calculate_checksum(packet, target) ==
    LET res == target - (checksum_sum(packet, Len(packet)) % 65536)
    IN  <<res % 256, (res \div 256) % 256>>

(***************************************************************************)
(* tornado._send_short_payload                                             *)
(***************************************************************************)
\* variant: the status request replaced by the info request
short_packet_info_only(payload) ==
    IF payload \in {0, 1} THEN <<12, 0, 187, 0, 6, 128, 0, 0, 2, 0, 33, 1, 27, 126>>
    ELSE IF payload = 2 THEN <<12, 0, 187, 0, 6, 128, 0, 0, 2, 0, 65, 1, 251, 125>>
    ELSE SetAt(SetAt(Zeros(16), 0, 208), 1, 7)

\* lines 230-239: the packet of request 0..3
short_packet(payload) ==
    IF payload = 0 THEN <<12, 0, 187, 0, 6, 128, 0, 0, 2, 0, 33, 1, 27, 126>>
    ELSE IF payload = 1 THEN <<12, 0, 187, 0, 6, 128, 0, 0, 2, 0, 17, 1, 43, 126>>
    ELSE IF payload = 2 THEN <<12, 0, 187, 0, 6, 128, 0, 0, 2, 0, 65, 1, 251, 125>>
    ELSE SetAt(SetAt(Zeros(16), 0, 208), 1, 7)

\* variant: the response decrypted before the error code is looked at
_send_short_payload_decrypt_first(payload, response) ==
    IF payload \notin 0..3
    THEN Outcome(<<>>, <<>>, "UnboundLocalError", <<>>, <<>>)
    ELSE
      LET s == <<short_packet(payload)>>
      IN  IF check_error(response.err)
          THEN Outcome(s, <<"send_packet", "decrypt", "check_error">>, "DeviceError",
                       <<response.err>>, <<>>)
          ELSE Outcome(s, <<"send_packet", "decrypt", "check_error">>, "ok",
                       response.payload, <<>>)

_send_short_payload(payload, response) ==
    IF payload \notin 0..3
    THEN Outcome(<<>>, <<>>, "UnboundLocalError", <<>>, <<>>)
    ELSE
      LET s == <<short_packet(payload)>>
      IN  IF check_error(response.err)
          THEN Outcome(s, <<"send_packet", "check_error">>, "DeviceError",
                       <<response.err>>, <<>>)
          ELSE Outcome(s, <<"send_packet", "check_error", "decrypt">>, "ok",
                       response.payload, <<>>)

(***************************************************************************)
(* tornado.get_ac_info                                                     *)
(***************************************************************************)
AcInfoStateIndex == 13

\* lines 343-352; a payload that has byte 0x0d is not empty, so the received
\* payload is always part of the dictionary
get_ac_info(response) ==
    LET out == _send_short_payload(0, response)
    IN  IF out.result.kind # "ok" THEN out
        ELSE IF Len(out.result.value) <= AcInfoStateIndex
        THEN Outcome(out.sent, out.steps, "IndexError", <<>>, <<>>)
        ELSE Outcome(out.sent, out.steps \o <<"decode">>, "ok",
                     [state |-> BitAnd(At(out.result.value, AcInfoStateIndex), 1) = 1,
                      received_payload |-> out.result.value],
                     <<>>)

(***************************************************************************)
(* tornado.get_state                                                       *)
(***************************************************************************)
Unrecognized == "unrecognized value"

\* lines 272-278
decode_swing_h(payload) ==
    LET swing_h == Shr(BitAnd(At(payload, 13), 224), 5)
    IN  IF swing_h = 7 THEN "OFF" ELSE Unrecognized

\* lines 271, 280-287
decode_swing_v(payload) ==
    LET swing_v == BitAnd(At(payload, 12), 7)
    IN  IF swing_v = 7 THEN "OFF"
        ELSE IF swing_v = 0 THEN "ON"
        ELSE IF swing_v >= 0 /\ swing_v <= 5 THEN ToString(swing_v)
        ELSE Unrecognized

\* lines 289-301
decode_mode(payload) ==
    LET mode == Shl(Shr(At(payload, 17), 3), 3)
    IN  IF mode = 0 THEN "A"
        ELSE IF mode = 32 THEN "C"
        ELSE IF mode = 64 THEN "D"
        ELSE IF mode = 128 THEN "H"
        ELSE IF mode = 192 THEN "F"
        ELSE Unrecognized

\* variant: Turbo only for the pair the encoder writes
decode_speed_exact_turbo(payload) ==
    LET speed_L == At(payload, 15)
        speed_R == At(payload, 16)
    IN  IF speed_L = 96 /\ speed_R = 0 THEN "L"
        ELSE IF speed_L = 64 /\ speed_R = 0 THEN "M"
        ELSE IF speed_L = 32 /\ speed_R = 0 THEN "H"
        ELSE IF speed_L = 64 /\ speed_R = 128 THEN "Mu"
        ELSE IF speed_L = 32 /\ speed_R = 64 THEN "T"
        ELSE IF speed_L = 160 /\ speed_R = 0 THEN "A"
        ELSE Unrecognized

\* lines 303-318
decode_speed(payload) ==
    LET speed_L == At(payload, 15)
        speed_R == At(payload, 16)
    IN  IF speed_L = 96 /\ speed_R = 0 THEN "L"
        ELSE IF speed_L = 64 /\ speed_R = 0 THEN "M"
        ELSE IF speed_L = 32 /\ speed_R = 0 THEN "H"
        ELSE IF speed_L = 64 /\ speed_R = 128 THEN "Mu"
        ELSE IF speed_R = 64 THEN "T"
        ELSE IF speed_L = 160 /\ speed_R = 0 THEN "A"
        ELSE Unrecognized

\* lines 267-322 and 331-332: the returned dictionary
decode_state(payload) ==
    [state |-> BitAnd(At(payload, 20), 32) = 32,
     set_temp |-> 4 * (Shr(At(payload, 12), 3) + 8)
                    + (IF BitAnd(At(payload, 14), 128) = 0 THEN 0 ELSE 2),
     swing_h |-> decode_swing_h(payload),
     swing_v |-> decode_swing_v(payload),
     mode |-> decode_mode(payload),
     speed |-> decode_speed(payload),
     sleep |-> BitAnd(At(payload, 26), 4) = 0,
     display |-> BitAnd(At(payload, 22), 16) = 16,
     health |-> BitAnd(At(payload, 20), 3) = 3,
     received_payload |-> payload]

StateLen == 32
ChecksumOffset == 25

\* lines 324-329: what the checksum comparison prints
checksum_diag(payload) ==
    LET checksum == _calculate_checksum(Slice(payload, 0, ChecksumOffset), DefaultTarget)
    IN  IF At(payload, ChecksumOffset) = checksum[1]
           /\ At(payload, ChecksumOffset + 1) = checksum[2]
        THEN <<>>
        ELSE <<<<"checksum fail", checksum[1], checksum[2]>>>>

\* variant: a checksum mismatch is not reported
get_state_silent(response) ==
    LET fetch == _send_short_payload(1, response)
    IN  IF fetch.result.kind # "ok" THEN fetch
        ELSE IF Len(fetch.result.value) # StateLen
        THEN Outcome(fetch.sent, fetch.steps, "AssertionError", <<>>, <<>>)
        ELSE Outcome(fetch.sent, fetch.steps \o <<"decode", "checksum">>, "ok",
                     decode_state(fetch.result.value), <<>>)

get_state(response) ==
    LET fetch == _send_short_payload(1, response)
    IN  IF fetch.result.kind # "ok" THEN fetch
        ELSE IF Len(fetch.result.value) # StateLen
        THEN Outcome(fetch.sent, fetch.steps, "AssertionError", <<>>, <<>>)
        ELSE Outcome(fetch.sent, fetch.steps \o <<"decode", "checksum">>, "ok",
                     decode_state(fetch.result.value),
                     checksum_diag(fetch.result.value))

(***************************************************************************)
(* tornado.set_advanced                                                    *)
(* The caller's arguments are a record over ArgNames; an argument is <<>>  *)
(* when left at None and <<v>> when given.                                 *)
(***************************************************************************)
ArgNames == {"state", "mode", "set_temp", "speed", "swing_v", "swing_h",
             "sleep", "display", "health"}

\* lines 370-375: args with every None replaced from the received state
merge_args(a, received_state) ==
    [k \in ArgNames |-> IF Len(a[k]) = 0 THEN received_state[k] ELSE a[k][1]]

\* line 382, set_temp in quarter degrees
set_temp_ok(set_temp) == set_temp >= 64 /\ set_temp <= 128 /\ set_temp % 2 = 0

\* lines 400-415: (speed_L, speed_R) of a speed name
speed_bytes(speed) ==
    IF speed = "L" THEN <<96, 0>>
    ELSE IF speed = "M" THEN <<64, 0>>
    ELSE IF speed = "H" THEN <<32, 0>>
    ELSE IF speed = "Mu" THEN <<64, 128>>
    ELSE IF speed = "T" THEN <<32, 64>>
    ELSE IF speed = "A" THEN <<160, 0>>
    ELSE <<>>

\* lines 417-428: mode_1 of a mode name
mode_byte(mode) ==
    IF mode = "A" THEN <<0>>
    ELSE IF mode = "C" THEN <<32>>
    ELSE IF mode = "D" THEN <<64>>
    ELSE IF mode = "H" THEN <<128>>
    ELSE IF mode = "F" THEN <<192>>
    ELSE <<>>

\* lines 377-380 and 430-447: the frame for integer swing_h and swing_v
advanced_payload(args, swing_h, swing_v, speed_LR, mode_1, sleep) ==
    LET prefix == <<25, 0, 187, 0, 6, 128, 0, 0, 15, 0, 1, 1>>
        body == <<BitOr(Shl((args.set_temp \div 4) - 8, 3), swing_h),
                  BitOr(Shl(swing_v, 5), 4),
                  BitOr(IF args.set_temp % 4 = 2 THEN 128 ELSE 0, 45),
                  speed_LR[1],
                  speed_LR[2],
                  BitOr(mode_1, IF sleep THEN 4 ELSE 0),
                  0,
                  0,
                  BitOr(IF args.health THEN 3 ELSE 0, IF args.state THEN 32 ELSE 0),
                  0,
                  IF args.display THEN 16 ELSE 0,
                  0,
                  5>>
        checksum == _calculate_checksum(prefix \o body, DefaultTarget)
    IN  prefix \o body \o checksum \o Zeros(5)

\* lines 384-452, reached only when args has the key "swing_H"
set_advanced_encode(a, args, fetch) ==
    LET fail(k, v) == Outcome(fetch.sent, fetch.steps, k, v, fetch.diag)
    IN  IF args["swing_H"] \notin {"OFF", "ON"} THEN fail("ValueError", <<"swing_H">>)
        ELSE IF "swing_V" \notin DOMAIN args THEN fail("KeyError", <<"swing_V">>)
        \* line 395 compares a string with 0
        ELSE IF args["swing_V"] \notin {"OFF", "ON"} THEN fail("TypeError", <<"swing_V">>)
        \* lines 400-415 read the parameter speed, not args
        ELSE IF Len(a.speed) = 0 \/ speed_bytes(a.speed[1]) = <<>>
        THEN fail("ValueError", <<"speed">>)
        ELSE IF a.speed[1] = "Mu" /\ a.mode # <<"F">> THEN fail("AssertionError", <<"speed">>)
        ELSE IF mode_byte(args.mode) = <<>> THEN fail("ValueError", <<"mode">>)
        \* line 431 shifts the parameter swing_v, which is None or a string
        ELSE fail("TypeError", <<"swing_v">>)

set_advanced(a, response) ==
    LET fetch == get_state(response)
    IN  IF fetch.result.kind # "ok" THEN fetch
        ELSE
          LET args == merge_args(a, fetch.result.value)
              fail(k, v) == Outcome(fetch.sent, fetch.steps, k, v, fetch.diag)
          IN  IF ~set_temp_ok(args.set_temp) THEN fail("AssertionError", <<"set_temp">>)
              ELSE IF "swing_H" \notin DOMAIN args THEN fail("KeyError", <<"swing_H">>)
              ELSE set_advanced_encode(a, args, fetch)

(***************************************************************************)
(* The module body: class hysen (line 8), class tornado (line 205).        *)
(* The return annotation of tornado._calculate_checksum at line 215 is the *)
(* call tuple(int, int).  An interpreter that evaluates annotations when   *)
(* it executes the def statement makes that call, which raises TypeError   *)
(* (tuple takes at most one argument) inside the class body: class tornado *)
(* is then never created.  An interpreter that defers annotations creates  *)
(* the class.  Which of the two happens is a property of the interpreter.  *)
(***************************************************************************)
AnnotationModes == {"eager", "lazy"}

\* the def statement of line 215
def_calculate_checksum(mode) == IF mode = "eager" THEN "TypeError" ELSE "ok"

\* the module body: the classes it leaves defined and how it ends
import_climate(mode) ==
    IF def_calculate_checksum(mode) = "ok"
    THEN [classes |-> {"hysen", "tornado"}, result |-> [kind |-> "ok", value |-> <<>>]]
    ELSE [classes |-> {"hysen"}, result |-> [kind |-> "TypeError", value |-> <<>>]]

(***************************************************************************)
(* Inputs.                                                                 *)
(***************************************************************************)
RECURSIVE SeqsUpTo(_, _)
SeqsUpTo(S, n) ==
    IF n = 0 THEN {<<>>}
    ELSE LET shorter == SeqsUpTo(S, n - 1)
         IN  shorter \cup {Append(q, x) : q \in {r \in shorter : Len(r) = n - 1}, x \in S}

PayloadBytes == {1, 6, 255}
LongLens == {253, 254}
InputPayloads ==
    SeqsUpTo(PayloadBytes, MaxPayloadLen) \cup {[i \in 1..n |-> 1] : n \in LongLens}

BodyBytes == {0, 1, 3, 255}
RawBodies == SeqsUpTo(BodyBytes, MaxBodyLen)

ErrCodes == {0, 1, 65535}

\* b with bit k flipped
FlipBit(b, k) == IF Bit(b, k) = 1 THEN b - Pow2(k) ELSE b + Pow2(k)

\* frame with bit k (0..15) of its two trailing bytes flipped
FlipTrailer(frame, k) ==
    LET i == IF k < 8 THEN Len(frame) - 1 ELSE Len(frame)
    IN  [frame EXCEPT ![i] = FlipBit(frame[i], k % 8)]

\* the responses a device may give to a heating request
HysenResponses(input_payload) ==
    LET frame == request_payload(input_payload)
    IN  {[err |-> e, payload |-> frame, kind |-> "echo"] : e \in ErrCodes}
          \cup {[err |-> 0, payload |-> FlipTrailer(frame, k), kind |-> "flip"] : k \in 0..15}
          \cup (IF Len(input_payload) <= MaxPayloadLen
                THEN {[err |-> 0, payload |-> b, kind |-> "raw"] : b \in RawBodies}
                ELSE {})

\* schedule lists: entry i of variant v, so that positions are distinguishable.
\* Variants 1 and 2 hold values that fit a byte.  Variant 3 has -0.25 degrees
\* in entry 2, which int() brings to 0.  The others have one value that is
\* not a byte: 4 has -0.5 degrees in entry 1, 5 has 128.0 degrees in the last
\* entry read, 6 has hour 256 in entry 1, 7 has minute -1 in entry 2, 8 has
\* 128.0 degrees in the entry after the last one read.
ScheduleBase(i, v) ==
    [start_hour |-> (5 * v + 2 * i) % 24, start_minute |-> (30 * v) % 60,
     temp |-> 64 + 2 * i + 4 * v]
ScheduleEntry(i, v, last) ==
    LET e == ScheduleBase(i, v)
    IN  IF v = 3 /\ i = 2 THEN [e EXCEPT !.temp = -1]
        ELSE IF v = 4 /\ i = 1 THEN [e EXCEPT !.temp = -2]
        ELSE IF v = 5 /\ i = last THEN [e EXCEPT !.temp = 512]
        ELSE IF v = 6 /\ i = 1 THEN [e EXCEPT !.start_hour = 256]
        ELSE IF v = 7 /\ i = 2 THEN [e EXCEPT !.start_minute = -1]
        ELSE IF v = 8 /\ i = last + 1 THEN [e EXCEPT !.temp = 512]
        ELSE e
ScheduleVariants == 1..8
ScheduleList(n, v, last) == [i \in 1..n |-> ScheduleEntry(i, v, last)]

\* the responses a device may give to the temperature request: the first n
\* bytes of a status payload, framed
TempPayload(room, external) ==
    <<1, 3, 16, 0, 1, room, 40, 1, 0, 42, 2, 35, 5, 0, 0, 0, 0, 0, external, 12, 30, 15>>
TempLens == {2, 5, 6, 18, 19, 22}
TempResponses ==
    {[err |-> 0, payload |-> request_payload(SubSeq(TempPayload(rm, ex), 1, n))] :
        rm \in {0, 45, 255}, ex \in {0, 38}, n \in TempLens}
        \cup {[err |-> 1, payload |-> <<>>], [err |-> 0, payload |-> <<>>]}

\* what a caller may pass to the heating setters; temperatures in quarter
\* degrees
ModeArgs == [auto_mode : {0, 1}, loop_mode : {0, 2, 15, -1}, sensor : {0, 1, 256}]
AdvancedArgs ==
    [loop_mode : {0}, sensor : {0, 2}, osv : {42}, dif : {2}, svh : {35, 256}, svl : {5},
     adj : {-4, -2, -1, 0, 2, 3, 131070}, fre : {0, 1}, poweron : {0, -1}]
TempArgs == {-2, -1, 0, 1, 90, 91, 511, 512}
PowerArgs == [power : {0, 1, 256}, remote_lock : {0, 1, -1}]
TimeArgs == [hour : {0, 23, 256}, minute : {0, 59}, second : {0, 59}, day : {1, 7, -1}]

\* the responses a device may give to a schedule command
AckResponses ==
    {[err |-> 0, payload |-> <<1, 255, 255>>], [err |-> 0, payload |-> <<3, 0, 1, 0, 0>>],
     [err |-> 1, payload |-> <<>>]}

\* an A/C status payload: the varying bytes, then the trailer at 0x19, 0x1a
StatusBase(b0c, b0d, b0e, b0f, b10, b11, b14, b16) ==
    <<25, 0, 187, 0, 7, 0, 0, 0, 15, 0, 1, 1>>
        \o <<b0c, b0d, b0e, b0f, b10, b11, 0, 0, b14, 0, b16, 0, 5>>

TrailerKinds == {"good", "bad_low", "bad_high"}

StatusTrailer(base, kind) ==
    LET good == _calculate_checksum(base, DefaultTarget)
    IN  IF kind = "good" THEN good
        ELSE IF kind = "bad_low" THEN <<FlipBit(good[1], 0), good[2]>>
        ELSE <<good[1], FlipBit(good[2], 2)>>

StatusPayload(base, kind) == base \o StatusTrailer(base, kind) \o Zeros(5)

TempSwingBytes == {135, 128, 70}
SwingHBytes == {224, 0}
HalfBytes == {45, 173}
SpeedLBytes == {96, 64, 32, 160, 0}
SpeedRBytes == {0, 128, 64, 1}
ModeBytes == {32, 68, 96}
PowerBytes == {35, 0}
DisplayBytes == {16, 0}

StatusBases ==
    {StatusBase(b0c, b0d, b0e, b0f, b10, b11, b14, b16) :
        b0c \in TempSwingBytes, b0d \in SwingHBytes, b0e \in HalfBytes,
        b0f \in SpeedLBytes, b10 \in SpeedRBytes, b11 \in ModeBytes,
        b14 \in PowerBytes, b16 \in DisplayBytes}

\* the responses a device may give to the status request
StatusResponses ==
    {[err |-> 0, payload |-> StatusPayload(b, k)] : b \in StatusBases, k \in TrailerKinds}
        \cup {[err |-> e, payload |-> q] : e \in ErrCodes, q \in {<<>>, Zeros(16), Zeros(32)}}

\* the status responses used with set_advanced: 24.0 degrees and 8.0 degrees
FetchResponses ==
    {[err |-> 0, payload |-> StatusPayload(StatusBase(b0c, 224, 45, 96, 0, 32, 35, 16), k)] :
        b0c \in {135, 7}, k \in {"good"}}
        \cup {[err |-> 0, payload |-> StatusPayload(StatusBase(135, 224, 45, 96, 0, 32, 35, 16), "bad_low")],
              [err |-> 1, payload |-> Zeros(32)], [err |-> 0, payload |-> Zeros(16)]}

Opt(S) == {<<>>} \cup {<<v>> : v \in S}

\* what a caller may pass to set_advanced; set_temp in quarter degrees
CallerArgs ==
    [state : Opt({TRUE}), mode : Opt({"C", "X"}), set_temp : Opt({90, 91, 132}),
     speed : Opt({"L", "Z"}), swing_v : Opt({"3", "bad"}),
     swing_h : Opt({"OFF", "bad"}), sleep : Opt({FALSE}), display : Opt({TRUE}),
     health : Opt({FALSE})]

ChecksumTargets == {DefaultTarget, 65547, 11}
ChecksumPackets ==
    {Slice(short_packet(n), 0, 12) : n \in 0..2}
        \cup SeqsUpTo({0, 1, 255}, MaxPacketLen)

ShortResponses ==
    {[err |-> e, payload |-> q] : e \in ErrCodes, q \in {<<>>, <<34, 0, 187>>, Zeros(32)}}

\* the responses a device may give to GET_AC_INFO
AcInfoPayload(b0d, n) ==
    SubSeq(<<34, 0, 187, 0, 7, 0, 0, 0, 24, 0, 1, 33, 192>> \o <<b0d>> \o Zeros(22), 1, n)
AcInfoResponses ==
    {[err |-> 0, payload |-> AcInfoPayload(b, n)] : b \in {0, 1, 32, 33}, n \in {13, 14, 36}}
        \cup {[err |-> e, payload |-> <<>>] : e \in ErrCodes}

\* a full status payload with the two calibration bytes at 13 and 14
AdjBytes == {0, 1, 127, 128, 254, 255}
FullStatusPayload(power, room, hi, lo) ==
    <<1, 3, 44, 0, power, room, 40, 1, 0, 42, 2, 35, 5>> \o <<hi, lo>>
        \o <<0, 0, 0, 38, 12, 30, 15, 3>>
        \o <<6, 0, 8, 0, 11, 30, 12, 30, 17, 0, 22, 0, 8, 0, 23, 0>>
        \o <<40, 30, 30, 30, 40, 30, 40, 30>>

\* the responses a device may give to the full status request
FullStatusResponses ==
    {[err |-> 0, payload |-> request_payload(FullStatusPayload(pw, rm, hi, lo))] :
        pw \in {0, 81}, rm \in {40, 45}, hi \in AdjBytes, lo \in AdjBytes}
        \cup {[err |-> 0, payload |-> request_payload(Zeros(FullStatusLen - 1))],
              [err |-> 1, payload |-> <<>>],
              [err |-> 0, payload |-> <<1, 255, 255>>]}

(***************************************************************************)
(* The state machine.                                                      *)
(***************************************************************************)
Init ==
    /\ annotations \in AnnotationModes
    /\ classes = {}
    /\ pc = "start"
    /\ op = "none"
    /\ arg = <<>>
    /\ sent = <<>>
    /\ steps = <<>>
    /\ result = [kind |-> "none", value |-> <<>>]
    /\ diag = <<>>

\* the module body runs once, before any call
ImportClimate ==
    /\ pc = "start"
    /\ \E m \in {import_climate(annotations)} :
         /\ classes' = m.classes
         /\ result' = m.result
    /\ pc' = "done"
    /\ op' = "import"
    /\ UNCHANGED <<annotations, arg, sent, steps, diag>>

\* a method of class c can be called when the class exists
Callable(c) == pc = "idle" /\ c \in classes

Finish(name, a, out) ==
    /\ UNCHANGED <<annotations, classes>>
    /\ pc' = "done"
    /\ op' = name
    /\ arg' = a
    /\ sent' = out.sent
    /\ steps' = out.steps
    /\ result' = out.result
    /\ diag' = out.diag

HysenSendRequest ==
    /\ Callable("hysen")
    /\ \E p \in InputPayloads :
         \E r \in HysenResponses(p) :
         \E out \in {send_request(p, r)} :
            Finish("hysen.send_request", [input_payload |-> p, response |-> r], out)

HysenSetSchedule ==
    /\ Callable("hysen")
    /\ \E n \in 0..MaxWeekday, m \in 0..MaxWeekend, v \in ScheduleVariants, w \in ScheduleVariants :
         \E r \in AckResponses :
         \E weekday \in {ScheduleList(n, v, NumWeekday)}, weekend \in {ScheduleList(m, w, NumWeekend)} :
         \E out \in {set_schedule(weekday, weekend, r)} :
            Finish("hysen.set_schedule",
                   [weekday |-> weekday, weekend |-> weekend, response |-> r], out)

HysenGetTemp ==
    /\ Callable("hysen")
    /\ \E r \in TempResponses :
         \E out \in {get_temp(r)} :
            Finish("hysen.get_temp", [response |-> r], out)

HysenGetExternalTemp ==
    /\ Callable("hysen")
    /\ \E r \in TempResponses :
         \E out \in {get_external_temp(r)} :
            Finish("hysen.get_external_temp", [response |-> r], out)

HysenSetMode ==
    /\ Callable("hysen")
    /\ \E a \in ModeArgs, r \in AckResponses :
         \E out \in {set_mode(a.auto_mode, a.loop_mode, a.sensor, r)} :
            Finish("hysen.set_mode", [a |-> a, response |-> r], out)

HysenSetAdvanced ==
    /\ Callable("hysen")
    /\ \E a \in AdvancedArgs, r \in AckResponses :
         \E out \in {hysen_set_advanced(a.loop_mode, a.sensor, a.osv, a.dif, a.svh, a.svl,
                                        a.adj, a.fre, a.poweron, r)} :
            Finish("hysen.set_advanced", [a |-> a, response |-> r], out)

HysenSwitchToAuto ==
    /\ Callable("hysen")
    /\ \E r \in AckResponses :
         \E out \in {switch_to_auto(r)} :
            Finish("hysen.switch_to_auto", [response |-> r], out)

HysenSwitchToManual ==
    /\ Callable("hysen")
    /\ \E r \in AckResponses :
         \E out \in {switch_to_manual(r)} :
            Finish("hysen.switch_to_manual", [response |-> r], out)

HysenSetTemp ==
    /\ Callable("hysen")
    /\ \E t \in TempArgs, r \in AckResponses :
         \E out \in {hysen_set_temp(t, r)} :
            Finish("hysen.set_temp", [temp |-> t, response |-> r], out)

HysenSetPower ==
    /\ Callable("hysen")
    /\ \E a \in PowerArgs, r \in AckResponses :
         \E out \in {set_power(a.power, a.remote_lock, r)} :
            Finish("hysen.set_power", [a |-> a, response |-> r], out)

HysenSetTime ==
    /\ Callable("hysen")
    /\ \E a \in TimeArgs, r \in AckResponses :
         \E out \in {set_time(a.hour, a.minute, a.second, a.day, r)} :
            Finish("hysen.set_time", [a |-> a, response |-> r], out)

HysenGetFullStatus ==
    /\ Callable("hysen")
    /\ \E r \in FullStatusResponses :
         \E out \in {get_full_status(r)} :
            Finish("hysen.get_full_status", [response |-> r], out)

TornadoCalculateChecksum ==
    /\ Callable("tornado")
    /\ \E p \in ChecksumPackets, t \in ChecksumTargets :
         \E out \in {Outcome(<<>>, <<>>, "ok", _calculate_checksum(p, t), <<>>)} :
            Finish("tornado._calculate_checksum", [packet |-> p, target |-> t], out)

TornadoSendShortPayload ==
    /\ Callable("tornado")
    /\ \E n \in 0..4, r \in ShortResponses :
         \E out \in {_send_short_payload(n, r)} :
            Finish("tornado._send_short_payload", [payload |-> n, response |-> r], out)

TornadoGetAcInfo ==
    /\ Callable("tornado")
    /\ \E r \in AcInfoResponses :
         \E out \in {get_ac_info(r)} :
            Finish("tornado.get_ac_info", [response |-> r], out)

TornadoGetState ==
    /\ Callable("tornado")
    /\ \E r \in StatusResponses :
         \E out \in {get_state(r)} :
            Finish("tornado.get_state", [response |-> r], out)

TornadoSetAdvanced ==
    /\ Callable("tornado")
    /\ \E a \in CallerArgs, r \in FetchResponses :
         \E out \in {set_advanced(a, r)} :
            Finish("tornado.set_advanced", [a |-> a, response |-> r], out)

\* the caller takes the result; the codec keeps nothing between transactions
Return ==
    /\ pc = "done"
    /\ UNCHANGED <<annotations, classes>>
    /\ pc' = "idle"
    /\ op' = "none"
    /\ arg' = <<>>
    /\ sent' = <<>>
    /\ steps' = <<>>
    /\ result' = [kind |-> "none", value |-> <<>>]
    /\ diag' = <<>>

Next ==
    \/ ImportClimate
    \/ HysenSendRequest
    \/ HysenGetTemp
    \/ HysenGetExternalTemp
    \/ HysenGetFullStatus
    \/ HysenSetMode
    \/ HysenSetAdvanced
    \/ HysenSwitchToAuto
    \/ HysenSwitchToManual
    \/ HysenSetTemp
    \/ HysenSetPower
    \/ HysenSetTime
    \/ HysenSetSchedule
    \/ TornadoCalculateChecksum
    \/ TornadoSendShortPayload
    \/ TornadoGetAcInfo
    \/ TornadoGetState
    \/ TornadoSetAdvanced
    \/ Return

Spec == Init /\ [][Next]_vars
(***************************************************************************)
(* Properties.                                                             *)
(***************************************************************************)
HysenDone == pc = "done" /\ op = "hysen.send_request"

\* the two trailer bytes a response must carry to pass the CRC check
ExpectedTrailer(body) ==
    LET crc == calculate_crc16(Slice(body, 2, At(body, 0)))
    IN  <<crc % 256, (crc \div 256) % 256>>

PassesLengthCheck(body) == Len(body) > 0 /\ At(body, 0) + 2 <= Len(body)

\* C1: a non-empty payload whose length fits the length byte is framed, and
\* when the frame that was sent comes back unchanged with no device error the
\* call returns exactly the payload.
C1_FrameRoundTrip ==
    (/\ HysenDone
     /\ Len(arg.input_payload) >= 1
     /\ Len(arg.input_payload) + 2 <= ByteLimit
     /\ arg.response.err = 0)
    => /\ Len(sent) = 1
       /\ sent[1][1] = Len(arg.input_payload) + 2
       /\ (arg.response.payload = sent[1]
             => result = [kind |-> "ok", value |-> arg.input_payload])

C1_Witness ==
    /\ HysenDone
    /\ Len(arg.input_payload) = ByteLimit - 2
    /\ arg.response.err = 0
    /\ arg.response.payload = sent[1]
    /\ result.kind = "ok"

\* C2: a response that passes the length check and whose two bytes at the
\* declared length differ from the little-endian CRC-16 of payload[2:declared]
\* makes the call fail with the CRC error; no payload is returned.
C2_CorruptionDetected ==
    (/\ HysenDone
     /\ Len(sent) = 1
     /\ arg.response.err = 0
     /\ PassesLengthCheck(arg.response.payload)
     /\ LET body == arg.response.payload
            n == At(body, 0)
        IN  <<At(body, n), At(body, n + 1)>> # ExpectedTrailer(body))
    => result = [kind |-> "ValueError_crc", value |-> <<>>]

C2_Witness ==
    /\ HysenDone
    /\ arg.response.kind = "flip"
    /\ Len(arg.input_payload) >= 1
    /\ result.kind = "ValueError_crc"

ScheduleDone == pc = "done" /\ op = "hysen.set_schedule"

\* C6 as stated: every call whose weekday list is not 6 long or whose weekend
\* list is not 2 long fails and sends nothing.
C6_Original ==
    (/\ ScheduleDone
     /\ (Len(arg.weekday) # NumWeekday \/ Len(arg.weekend) # NumWeekend))
    => (result.kind # "ok" /\ sent = <<>>)

\* the hours, minutes and doubled temperature of an entry are bytes: the
\* temperature is above -0.5 and below 128 degrees
EntryFits(e) ==
    /\ e.start_hour \in 0..255
    /\ e.start_minute \in 0..255
    /\ e.temp \in (0 - 1)..511

\* the entries the call can read, the first 6 and the first 2, all fit
ReadEntriesFit ==
    /\ \A i \in 1..Min(Len(arg.weekday), NumWeekday) : EntryFits(arg.weekday[i])
    /\ \A i \in 1..Min(Len(arg.weekend), NumWeekend) : EntryFits(arg.weekend[i])

\* C6 (amended): a weekday list shorter than 6 or a weekend list shorter than 2
\* makes the call fail before anything is sent (no padding), with IndexError
\* when the entries it has fit a byte; longer lists are accepted, the entries
\* after the first 6 and the first 2 are never looked at: the frame sent is the
\* one of the first 6 and the first 2 entries when those fit a byte, and the
\* call fails with ValueError before anything is sent when one does not.
C6_ScheduleLengths ==
    ScheduleDone =>
       IF Len(arg.weekday) < NumWeekday \/ Len(arg.weekend) < NumWeekend
       THEN /\ result.kind \in {"IndexError", "ValueError_byte"}
            /\ ReadEntriesFit => result.kind = "IndexError"
            /\ sent = <<>>
       ELSE IF ReadEntriesFit
       THEN sent = <<request_payload(
                        schedule_payload(SubSeq(arg.weekday, 1, NumWeekday),
                                         SubSeq(arg.weekend, 1, NumWeekend)))>>
       ELSE result.kind = "ValueError_byte" /\ sent = <<>>

C6_Witness ==
    /\ ScheduleDone
    /\ Len(arg.weekday) = NumWeekday + 1
    /\ Len(arg.weekend) = NumWeekend
    /\ ~EntryFits(arg.weekday[NumWeekday + 1])
    /\ Len(sent) = 1
    /\ result.kind = "ok"

C6_WitnessShort ==
    /\ ScheduleDone
    /\ Len(arg.weekday) = NumWeekday
    /\ Len(arg.weekend) = NumWeekend - 1
    /\ result.kind = "IndexError"

\* a value that is not a byte is met before the missing entry is
C6_WitnessShortByte ==
    /\ ScheduleDone
    /\ Len(arg.weekday) = NumWeekday - 1
    /\ result.kind = "ValueError_byte"

\* -0.25 degrees is sent as the byte 0
C6_WitnessTruncated ==
    /\ ScheduleDone
    /\ Len(arg.weekday) = NumWeekday
    /\ arg.weekday[2].temp = 0 - 1
    /\ Len(sent) = 1
    /\ sent[1][27] = 0
(***************************************************************************)
(* Properties of the air conditioner profile.                              *)
(***************************************************************************)
SetAdvancedDone == pc = "done" /\ op = "tornado.set_advanced"
GetStateDone == pc = "done" /\ op = "tornado.get_state"

ValidModes == {"A", "C", "D", "H", "F"}
ValidSpeeds == {"Mu", "L", "M", "H", "T", "A"}
ValidSwingH == {"ON", "OFF"}
ValidSwingV == {"ON", "OFF", "1", "2", "3", "4", "5"}

Given(a, k) == Len(a[k]) = 1

\* a value the caller passed is not acceptable
InvalidCallerInput(a) ==
    \/ Given(a, "set_temp") /\ ~(a.set_temp[1] >= 64 /\ a.set_temp[1] <= 128
                                   /\ a.set_temp[1] % 2 = 0)
    \/ Given(a, "mode") /\ a.mode[1] \notin ValidModes
    \/ Given(a, "speed") /\ a.speed[1] \notin ValidSpeeds
    \/ Given(a, "swing_h") /\ a.swing_h[1] \notin ValidSwingH
    \/ Given(a, "swing_v") /\ a.swing_v[1] \notin ValidSwingV

\* every field of a full state is acceptable
ValidState(st) ==
    /\ st.set_temp >= 64 /\ st.set_temp <= 128 /\ st.set_temp % 2 = 0
    /\ st.mode \in ValidModes
    /\ st.speed \in ValidSpeeds
    /\ st.swing_h \in ValidSwingH
    /\ st.swing_v \in ValidSwingV

GetStatesRequest == <<12, 0, 187, 0, 6, 128, 0, 0, 2, 0, 17, 1, 43, 126>>

\* C3 as stated: when a value passed by the caller is invalid the call fails
\* and nothing at all has been sent.
C3_Original ==
    (SetAdvancedDone /\ InvalidCallerInput(arg.a))
    => (result.kind # "ok" /\ sent = <<>>)

\* C3 (amended): when a value passed by the caller is invalid the call fails,
\* and the only frame sent during the call is the status request, issued
\* before any validation; no command frame is sent.
C3_RejectAfterFetchOnly ==
    (SetAdvancedDone /\ InvalidCallerInput(arg.a))
    => /\ result.kind # "ok"
       /\ sent = <<GetStatesRequest>>
       /\ steps[1] = "send_packet"

C3_Witness ==
    /\ SetAdvancedDone
    /\ Given(arg.a, "set_temp") /\ arg.a.set_temp[1] = 132
    /\ arg.response.err = 0
    /\ result.kind = "AssertionError"
    /\ Len(sent) = 1

\* the status fetched at the start of a set_advanced call was decoded
FetchOk == arg.response.err = 0 /\ Len(arg.response.payload) = StateLen

\* the state the claims call effective: the caller's values over the fetched ones
EffectiveState ==
    LET cur == decode_state(arg.response.payload)
    IN  [k \in ArgNames |-> IF Given(arg.a, k) THEN arg.a[k][1] ELSE cur[k]]

\* C4 as stated: whenever the merged state is valid the call succeeds and the
\* frame sent after the status request carries the merged values.
C4_ReadModifyWrite ==
    (SetAdvancedDone /\ FetchOk /\ ValidState(EffectiveState))
    => /\ result.kind = "ok"
       /\ Len(sent) = 2
       /\ Len(sent[2]) = StateLen
       /\ <<At(sent[2], 15), At(sent[2], 16)>> = speed_bytes(EffectiveState.speed)
       /\ <<Shl(Shr(At(sent[2], 17), 3), 3)>> = mode_byte(EffectiveState.mode)
       /\ Shr(At(sent[2], 12), 3) = (EffectiveState.set_temp \div 4) - 8
       /\ (BitAnd(At(sent[2], 20), 32) = 32) = EffectiveState.state

ChecksumDone == pc = "done" /\ op = "tornado._calculate_checksum"

\* (target - sum of the little-endian 16-bit words) mod 0x10000, low byte first
RECURSIVE WordSum(_)
WordSum(packet) ==
    IF Len(packet) = 0 THEN 0
    ELSE IF Len(packet) = 1 THEN packet[1]
    ELSE packet[1] + 256 * packet[2] + WordSum(SubSeq(packet, 3, Len(packet)))

TargetSum(packet, target) ==
    LET v == (target - WordSum(packet)) % 65536
    IN  <<v % 256, v \div 256>>

IsShortRequestHead(packet) == \E n \in 0..2 : packet = Slice(short_packet(n), 0, 12)

\* C5 as stated: with target 0x20017 the checksum of the first 12 bytes of each
\* short request is the last two bytes of that request.
C5_Original ==
    (ChecksumDone /\ arg.target = DefaultTarget)
    => \A n \in 0..2 :
          arg.packet = Slice(short_packet(n), 0, 12)
             => result.value = Slice(short_packet(n), 12, 14)

\* C5 (amended): the checksum is (target - word sum) mod 0x10000, low byte
\* first; over the first 12 bytes of GET_AC_INFO with target 0x20017 it is
\* (0x27, 0x7e); the last two bytes of each short request are the checksum of
\* its first 12 bytes for target 0x1000b, not 0x20017.
C5_ChecksumOfConstants ==
    ChecksumDone =>
       /\ result.value = TargetSum(arg.packet, arg.target)
       /\ (arg.target = DefaultTarget /\ arg.packet = <<12, 0, 187, 0, 6, 128, 0, 0, 2, 0, 33, 1>>)
             => result.value = <<39, 126>>
       /\ \A n \in 0..2 :
             arg.packet = Slice(short_packet(n), 0, 12)
                => /\ arg.target = 65547 => result.value = Slice(short_packet(n), 12, 14)
                   /\ arg.target = DefaultTarget
                         => result.value # Slice(short_packet(n), 12, 14)

C5_Witness ==
    /\ ChecksumDone
    /\ arg.packet = <<12, 0, 187, 0, 6, 128, 0, 0, 2, 0, 33, 1>>
    /\ arg.target = 65547
    /\ result.value = <<27, 126>>

\* the trailer of a 32-byte status payload does not match its checksum
TrailerMismatch(payload) ==
    <<At(payload, ChecksumOffset), At(payload, ChecksumOffset + 1)>>
        # TargetSum(Slice(payload, 0, ChecksumOffset), DefaultTarget)

\* the payload with its trailer replaced by the matching one
WithGoodTrailer(payload) ==
    Slice(payload, 0, ChecksumOffset)
        \o TargetSum(Slice(payload, 0, ChecksumOffset), DefaultTarget)
        \o Slice(payload, ChecksumOffset + 2, Len(payload))

\* the fields get_state does not read from the trailer bytes
BodyFields == {"state", "set_temp", "swing_h", "swing_v", "mode", "speed",
               "display", "health"}

\* C7: a 32-byte status whose trailer does not match is still decoded: the call
\* returns, every field not read from the trailer has the value it has for the
\* same payload with a matching trailer, and a diagnostic line is emitted.
C7_ChecksumSoftFail ==
    (/\ GetStateDone
     /\ arg.response.err = 0
     /\ Len(arg.response.payload) = StateLen
     /\ TrailerMismatch(arg.response.payload))
    => /\ result.kind = "ok"
       /\ \A f \in BodyFields :
             result.value[f] = decode_state(WithGoodTrailer(arg.response.payload))[f]
       /\ Len(diag) = 1
       /\ diag[1][1] = "checksum fail"

C7_Witness ==
    /\ GetStateDone
    /\ arg.response.err = 0
    /\ Len(arg.response.payload) = StateLen
    /\ TrailerMismatch(arg.response.payload)
    /\ result.kind = "ok"
    /\ result.value.mode = "D"
    /\ diag # <<>>

\* the six pairs the encoder writes
EncoderSpeedPairs == {<<96, 0>>, <<64, 0>>, <<32, 0>>, <<64, 128>>, <<32, 64>>, <<160, 0>>}
SpeedPair(payload) == <<At(payload, 15), At(payload, 16)>>

\* C8 as stated: a pair that is not one of the six the encoder writes never
\* decodes to a known speed.
C8_Original ==
    (GetStateDone /\ result.kind = "ok"
        /\ SpeedPair(arg.response.payload) \notin EncoderSpeedPairs)
    => result.value.speed = Unrecognized

\* C8 (amended): every pair whose second byte is 0x40 decodes to Turbo, whatever
\* the first byte; every other pair that is not one of the five exact pairs of
\* Low, Mid, High, Mute and Auto decodes to the string 'unrecognized value'; the
\* call does not fail, and the raw bytes are in received_payload only.
C8_SpeedDecode ==
    (GetStateDone /\ arg.response.err = 0 /\ Len(arg.response.payload) = StateLen)
    => LET pair == SpeedPair(arg.response.payload)
       IN  /\ result.kind = "ok"
           /\ pair[2] = 64 => result.value.speed = "T"
           /\ (pair[2] # 64 /\ pair \notin EncoderSpeedPairs)
                 => /\ result.value.speed = Unrecognized
                    /\ SpeedPair(result.value.received_payload) = pair
           /\ (pair \in EncoderSpeedPairs)
                 => /\ result.value.speed \in ValidSpeeds
                    /\ speed_bytes(result.value.speed) = pair

C8_Witness ==
    /\ GetStateDone
    /\ result.kind = "ok"
    /\ SpeedPair(arg.response.payload) = <<96, 64>>
    /\ result.value.speed = "T"

C8_WitnessUnrecognized ==
    /\ GetStateDone
    /\ result.kind = "ok"
    /\ SpeedPair(arg.response.payload) = <<0, 1>>
    /\ result.value.speed = Unrecognized

TransactionOps == {"hysen.send_request", "hysen.get_temp", "hysen.get_external_temp",
                   "hysen.get_full_status", "hysen.set_mode", "hysen.set_advanced",
                   "hysen.switch_to_auto", "hysen.switch_to_manual", "hysen.set_temp",
                   "hysen.set_power", "hysen.set_time", "hysen.set_schedule",
                   "tornado._send_short_payload", "tornado.get_ac_info",
                   "tornado.get_state", "tornado.set_advanced"}

\* C9: in every transaction a non-zero error code makes the call fail with the
\* device error right after the send: the response is not decrypted, no length
\* or checksum check and no decoding takes place, nothing is returned.
C9_DeviceErrorFirst ==
    (pc = "done" /\ op \in TransactionOps /\ Len(sent) >= 1 /\ arg.response.err # 0)
    => /\ result = [kind |-> "DeviceError", value |-> <<arg.response.err>>]
       /\ steps = <<"send_packet", "check_error">>
       /\ Len(sent) = 1

C9_Witness ==
    /\ pc = "done"
    /\ op = "tornado.get_state"
    /\ arg.response.err = 65535
    /\ Len(arg.response.payload) = StateLen
    /\ result.kind = "DeviceError"

C9_WitnessHysen ==
    /\ HysenDone
    /\ arg.response.err = 1
    /\ arg.response.payload = sent[1]
    /\ result.kind = "DeviceError"

\* all nine parameters given
FullState(a) == \A k \in ArgNames : Given(a, k)

\* C10 as stated: for a valid full state set_advanced sends a 32-byte frame whose
\* bytes 0x19, 0x1a are the checksum of the bytes before them and from which
\* get_state's extraction returns every field as given.
C10_EncodeDecode ==
    (SetAdvancedDone /\ FetchOk /\ FullState(arg.a) /\ ValidState(EffectiveState))
    => /\ Len(sent) = 2
       /\ Len(sent[2]) = StateLen
       /\ ~TrailerMismatch(sent[2])
       /\ \A k \in ArgNames : decode_state(sent[2])[k] = EffectiveState[k]
(***************************************************************************)
(* Properties of the heating status decode.                                *)
(***************************************************************************)
FullStatusDone == pc = "done" /\ op = "hysen.get_full_status"

\* the 16-bit big-endian value of payload[13], payload[14] of the status that
\* the response carries (the response body is length, 0, payload, CRC)
RawAdj == 256 * At(arg.response.payload, 15) + At(arg.response.payload, 16)

\* C11 as stated: room_temp_adj is the raw 16-bit value divided by 2, replaced
\* by 32767 minus that value exactly when the raw value exceeds 32767
\* (quarter degrees: 2 * raw and 4 * 32767).
C11_MirrorAboveRaw32767 ==
    (FullStatusDone /\ result.kind = "ok")
    => result.value.room_temp_adj
          = (IF RawAdj > 32767 THEN 4 * 32767 - 2 * RawAdj ELSE 2 * RawAdj)

\* what the code does: the comparison is made on the halved value, so the
\* mirror is applied for the raw value 65535 only
C11_MirrorOnlyAt65535 ==
    (FullStatusDone /\ result.kind = "ok")
    => result.value.room_temp_adj
          = (IF RawAdj = 65535 THEN 0 - 2 ELSE 2 * RawAdj)
====
